---- MODULE Spec2Model ----
(***************************************************************************)
(* A model of the drawing-app stroke engine: the polyline simplifier       *)
(* (ramer_douglas_peucker), the smoother (catmull_rom_spline), the chunked *)
(* tessellator (stroke_to_world_submeshes, build_stroke_mesh_chunk), the   *)
(* visibility test (is_stroke_visible), the screen transform               *)
(* (transform_mesh_absolute), the InfiniteCanvas with its stroke list,     *)
(* stroke cache and undo/redo CommandStack, and the tick loop of main that *)
(* drains the stylus events and drives the canvas.                         *)
(*                                                                         *)
(* f32 values are modelled as exact rationals <<n, d>> (d > 0, lowest      *)
(* terms), so equal values are equal tuples.  Lengths are never taken:     *)
(* wherever the code compares two non-negative lengths the model compares  *)
(* their squares.  Rust's 0-based indices are kept in the variables that   *)
(* hold indices (start, end, index); sequences are 1-based as usual.       *)
(***************************************************************************)
EXTENDS Integers, Sequences, FiniteSets, TLC

VARIABLES
    \* ---- InfiniteCanvas (src/src/main.rs:75-89) ----
    strokes,          \* Vec<Stroke>: each stroke is its Vec of points
    stroke_cache,     \* Vec<Option<Vec<Mesh>>>
    current_stroke,   \* Option<Stroke>
    undo_stack,       \* CommandStack.undo_stack
    redo_stack,       \* CommandStack.redo_stack
    offset,           \* Vec2
    zoom,             \* f32
    hist,             \* history of the last calls (for the undo/redo claims)
    current_pressure,       \* f32
    stylus_btn_1_pressed,   \* bool
    last_btn_1_press,       \* Instant: "recent" while less than 300 ms ago
    tool_mode,              \* ToolMode: "Pen" | "Eraser"
    last_stylus_screen_pos, \* Option<Vec2>
    gesture,                \* the pen-down gestures behind current_stroke
    \* ---- one call of a pure function ----
    pc,               \* "idle" | "call" | "loop" | "done"
    points,           \* the argument `points`
    epsilon,          \* ramer_douglas_peucker's `epsilon`
    segments,         \* catmull_rom_spline's `segments`
    max_chunk_points, \* stroke_to_world_submeshes' `max_chunk_points`
    start,            \* stroke_to_world_submeshes' loop variable `start`
    calls,            \* the arguments of every build_stroke_mesh_chunk call
    result,           \* the value returned (or built so far)
    start_cap,        \* build_stroke_mesh_chunk's `draw_start_cap`
    end_cap,          \* build_stroke_mesh_chunk's `draw_end_cap`
    original_mesh,    \* transform_mesh_absolute's `original_mesh`
    pivot,            \* transform_mesh_absolute's `pivot`
    view_w,           \* is_stroke_visible's `screen_w`
    view_h            \* is_stroke_visible's `screen_h`

vars == <<strokes, stroke_cache, current_stroke, undo_stack, redo_stack,
          offset, zoom, hist, pc, points, epsilon, segments,
          max_chunk_points, start, calls, result, start_cap, end_cap,
          original_mesh, pivot, view_w, view_h, current_pressure,
          stylus_btn_1_pressed, last_btn_1_press, tool_mode,
          last_stylus_screen_pos, gesture>>

\* the fields of the canvas the stylus events write
input_vars == <<current_pressure, stylus_btn_1_pressed, last_btn_1_press,
                tool_mode, last_stylus_screen_pos, gesture>>

canvas_vars == <<strokes, stroke_cache, current_stroke, undo_stack,
                 redo_stack, offset, zoom, hist, input_vars>>

\* the arguments only build_stroke_mesh_chunk, transform_mesh_absolute and
\* is_stroke_visible take
arg_vars == <<start_cap, end_cap, original_mesh, pivot, view_w, view_h>>

fn_vars == <<pc, points, epsilon, segments, max_chunk_points, start, calls,
             result, arg_vars>>

\* Option<T>: None is the empty sequence, Some(x) the sequence of x alone
None == <<>>

Some(x) == <<x>>

(***************************************************************************)
(* Exact arithmetic standing for f32.                                      *)
(***************************************************************************)
Abs(n) == IF n < 0 THEN -n ELSE n

RECURSIVE GCD(_, _)
GCD(a, b) == IF b = 0 THEN a ELSE GCD(b, a % b)

Rat(n, d) ==
    LET s == IF d < 0 THEN -1 ELSE 1
        g == GCD(Abs(n), Abs(d))
    IN  <<(s * n) \div g, (s * d) \div g>>

R(n) == <<n, 1>>

RAdd(a, b) == Rat(a[1] * b[2] + b[1] * a[2], a[2] * b[2])
RNeg(a) == <<-a[1], a[2]>>
RSub(a, b) == RAdd(a, RNeg(b))
RMul(a, b) == Rat(a[1] * b[1], a[2] * b[2])
RDiv(a, b) == Rat(a[1] * b[2], a[2] * b[1])
RLt(a, b) == a[1] * b[2] < b[1] * a[2]
RLe(a, b) == a[1] * b[2] <= b[1] * a[2]
RMax(a, b) == IF RLt(a, b) THEN b ELSE a
RMin(a, b) == IF RLt(b, a) THEN b ELSE a

\* Vec2 values are pairs of rationals.
VSub(p, q) == <<RSub(p[1], q[1]), RSub(p[2], q[2])>>
VAdd(p, q) == <<RAdd(p[1], q[1]), RAdd(p[2], q[2])>>
VScale(p, k) == <<RMul(p[1], k), RMul(p[2], k)>>
VDot(p, q) == RAdd(RMul(p[1], q[1]), RMul(p[2], q[2]))
\* Vec2::length squared
LengthSq(p) == VDot(p, p)

\* a > b for a length a >= 0 given by its square asq, and any b
GtLen(asq, b) == RLt(b, R(0)) \/ RLt(RMul(b, b), asq)

\* A point of a stroke: (Vec2, f32)
Pt(x, y, r) == [pos |-> <<R(x), R(y)>>, r |-> r]

\* no call made since the last finalize_stroke that added a stroke
NoHist == [op |-> "none", before |-> <<>>, after |-> <<>>]

\* the input fields as InfiniteCanvas::new leaves them (main.rs:102-106):
\* the last press of the stylus button is set one second back
InputNew ==
    /\ current_pressure = R(0)
    /\ stylus_btn_1_pressed = FALSE
    /\ last_btn_1_press = "old"
    /\ tool_mode = "Pen"
    /\ last_stylus_screen_pos = None
    /\ gesture = "none"

\* InfiniteCanvas::new (main.rs:92-110)
CanvasNew ==
    /\ InputNew
    /\ strokes = <<>>
    /\ stroke_cache = <<>>
    /\ current_stroke = None
    /\ undo_stack = <<>>
    /\ redo_stack = <<>>
    /\ offset = <<R(0), R(0)>>
    /\ zoom = R(1)
    /\ hist = NoHist

\* the arguments of arg_vars are not in use
NoArgs ==
    /\ start_cap = FALSE
    /\ end_cap = FALSE
    /\ original_mesh = <<>>
    /\ pivot = <<R(0), R(0)>>
    /\ view_w = R(0)
    /\ view_h = R(0)

\* no pure function is being called
FnIdle ==
    /\ pc = "idle"
    /\ points = <<>>
    /\ epsilon = R(0)
    /\ segments = 0
    /\ max_chunk_points = 0
    /\ start = 0
    /\ calls = <<>>
    /\ result = <<>>
    /\ NoArgs

(***************************************************************************)
(* Simplifier: src/src/utility.rs                                          *)
(***************************************************************************)
\* perpendicular_distance, squared
perpendicular_distance_sq(p, a, b) ==
    LET ap == VSub(p, a)
        ab == VSub(b, a)
        ab_length_sq == LengthSq(ab)
    IN  IF ab_length_sq = R(0)
        THEN LengthSq(ap)
        ELSE LET proj == RDiv(VDot(ap, ab), ab_length_sq)
                 closest == VAdd(a, VScale(ab, proj))
             IN  LengthSq(VSub(p, closest))

\* The scan of the interior points (utility.rs:27-36): i is the 0-based index
\* of the next point to look at, acc = [max_dist_sq, index] so far.
RECURSIVE rdp_scan(_, _, _)
rdp_scan(pts, i, acc) ==
    IF i > Len(pts) - 2
    THEN acc
    ELSE LET dist_sq == perpendicular_distance_sq(pts[i + 1].pos, pts[1].pos,
                                                  pts[Len(pts)].pos)
         IN  rdp_scan(pts, i + 1,
                      IF RLt(acc.max_dist_sq, dist_sq)
                      THEN [max_dist_sq |-> dist_sq, index |-> i]
                      ELSE acc)

\* ">=" in place of ">" (taken only where a split index was found)
rdp_split_ge(max_dist_sq, eps) ==
    GtLen(max_dist_sq, eps)
    \/ (max_dist_sq # R(0) /\ max_dist_sq = RMul(eps, eps))

\* "<=" in place of ">" (taken only where a split index was found)
rdp_split_le(max_dist_sq, eps) ==
    max_dist_sq # R(0) /\ ~GtLen(max_dist_sq, eps)

\* max_dist > epsilon (utility.rs:38)
rdp_split(max_dist_sq, eps) == GtLen(max_dist_sq, eps)

\* the pop done after the extend
rdp_join_pop_last(left, right) ==
    SubSeq(left \o right, 1, Len(left) + Len(right) - 1)

\* result = left; result.pop(); result.extend(right) (utility.rs:42-45)
rdp_join(left, right) == SubSeq(left, 1, Len(left) - 1) \o right

RECURSIVE ramer_douglas_peucker(_, _)
ramer_douglas_peucker(pts, eps) ==
    IF Len(pts) < 3
    THEN pts
    ELSE LET m == rdp_scan(pts, 1, [max_dist_sq |-> R(0), index |-> 0])
         IN  IF rdp_split(m.max_dist_sq, eps)
             THEN rdp_join(
                      ramer_douglas_peucker(SubSeq(pts, 1, m.index + 1), eps),
                      ramer_douglas_peucker(SubSeq(pts, m.index + 1, Len(pts)),
                                            eps))
             ELSE <<pts[1], pts[Len(pts)]>>

(***************************************************************************)
(* Smoother: src/src/utility.rs                                            *)
(***************************************************************************)
Half == Rat(1, 2)

\* The cubic evaluated on one channel (utility.rs:54, and 84-85 for x and y):
\* 0.5*((2*r1) + (-r0+r2)*t + (2*r0-5*r1+4*r2-r3)*t2 + (-r0+3*r1-3*r2+r3)*t3)
interpolate_pressure(r0, r1, r2, r3, t) ==
    LET t2 == RMul(t, t)
        t3 == RMul(t2, t)
        c1 == RAdd(RNeg(r0), r2)
        c2 == RSub(RAdd(RSub(RMul(R(2), r0), RMul(R(5), r1)),
                        RMul(R(4), r2)), r3)
        c3 == RAdd(RSub(RAdd(RNeg(r0), RMul(R(3), r1)), RMul(R(3), r2)), r3)
    IN  RMul(Half,
             RAdd(RAdd(RAdd(RMul(R(2), r1), RMul(c1, t)), RMul(c2, t2)),
                  RMul(c3, t3)))

\* t taken at the end of the step instead of its start
cr_t_next(s, segs) == Rat(s + 1, segs)

\* let t = s as f32 / (segments as f32) (utility.rs:80)
cr_t(s, segs) == Rat(s, segs)

\* One sample of the span whose control points are ext[i-1..i+2] (0-based i),
\* utility.rs:69-90.
cr_sample(ext, i, s, segs) ==
    LET p0 == ext[i]
        p1 == ext[i + 1]
        p2 == ext[i + 2]
        p3 == ext[i + 3]
        t  == cr_t(s, segs)
    IN  [pos |-> <<interpolate_pressure(p0.pos[1], p1.pos[1], p2.pos[1],
                                        p3.pos[1], t),
                   interpolate_pressure(p0.pos[2], p1.pos[2], p2.pos[2],
                                        p3.pos[2], t)>>,
         r |-> interpolate_pressure(p0.r, p1.r, p2.r, p3.r, t)]

\* the spans of the unpadded sequence only
cr_last_span_unpadded(ext_len) == ext_len - 5

\* for i in 1..(extended.len()-2): the last value i takes (utility.rs:68)
cr_last_span(ext_len) == ext_len - 3

\* the early return taken below 3 points only
catmull_rom_spline_min3(pts, segs) ==
    IF Len(pts) < 3
    THEN pts
    ELSE LET extended == <<pts[1]>> \o pts \o <<pts[Len(pts)]>>
             nspans == cr_last_span(Len(extended))
             samples == [k \in 1..(nspans * segs) |->
                            cr_sample(extended, ((k - 1) \div segs) + 1,
                                      (k - 1) % segs, segs)]
         IN  Append(samples, pts[Len(pts)])

catmull_rom_spline(pts, segs) ==
    IF Len(pts) < 4
    THEN pts
    ELSE LET extended == <<pts[1]>> \o pts \o <<pts[Len(pts)]>>
             nspans == cr_last_span(Len(extended))
             samples == [k \in 1..(nspans * segs) |->
                            cr_sample(extended, ((k - 1) \div segs) + 1,
                                      (k - 1) % segs, segs)]
         IN  Append(samples, pts[Len(pts)])

(***************************************************************************)
(* Tessellator: src/src/main.rs                                            *)
(*                                                                         *)
(* A vertex position is kept as the terms it is computed from, since the   *)
(* unit tangent needs a square root: a rail vertex is                      *)
(* pos +/- perp(normalize(dir)) * radius, a cap vertex is the centre or    *)
(* the j-th rim point of the half disk over the two rail vertices of pos.  *)
(***************************************************************************)
CAP_SEGMENTS == 8

U16(n) == n % 65536

Vertex(kind, p, dir, j) ==
    [kind |-> kind, pos |-> p.pos, radius |-> p.r, dir |-> dir, j |-> j]

EmptyMesh == [vertices |-> <<>>, indices |-> <<>>]

\* the cap without its last rim vertex
draw_cap_short_rim(mesh, p, dir) ==
    LET first_cap_index == U16(Len(mesh.vertices))
        rim == [k \in 1..CAP_SEGMENTS |-> Vertex("cap_rim", p, dir, k - 1)]
        tri == [k \in 1..(3 * CAP_SEGMENTS) |->
                   LET j == (k - 1) \div 3
                   IN  CASE (k - 1) % 3 = 0 -> first_cap_index
                         [] (k - 1) % 3 = 1 -> U16(first_cap_index + 1 + U16(j))
                         [] OTHER -> U16(first_cap_index + 2 + U16(j))]
    IN  [vertices |->
             mesh.vertices \o <<Vertex("cap_center", p, dir, 0)>> \o rim,
         indices |-> mesh.indices \o tri]

\* draw_cap (main.rs:330-393): appends the centre, CAP_SEGMENTS+1 rim
\* vertices and CAP_SEGMENTS triangles to the mesh.
draw_cap(mesh, p, dir) ==
    LET first_cap_index == U16(Len(mesh.vertices))
        rim == [k \in 1..(CAP_SEGMENTS + 1) |->
                   Vertex("cap_rim", p, dir, k - 1)]
        tri == [k \in 1..(3 * CAP_SEGMENTS) |->
                   LET j == (k - 1) \div 3
                   IN  CASE (k - 1) % 3 = 0 -> first_cap_index
                         [] (k - 1) % 3 = 1 -> U16(first_cap_index + 1 + U16(j))
                         [] OTHER -> U16(first_cap_index + 2 + U16(j))]
    IN  [vertices |->
             mesh.vertices \o <<Vertex("cap_center", p, dir, 0)>> \o rim,
         indices |-> mesh.indices \o tri]

\* the direction at point i (0-based) before it is normalized
\* (main.rs:499-512)
direction(pts, i) ==
    IF i = Len(pts) - 1
    THEN VSub(pts[i + 1].pos, pts[i].pos)
    ELSE VSub(pts[i + 2].pos, pts[i + 1].pos)

build_stroke_mesh_chunk(pts, draw_start_cap, draw_end_cap) ==
    IF Len(pts) < 2
    THEN EmptyMesh
    ELSE LET n == Len(pts)
             rails == [k \in 1..(2 * n) |->
                          LET i == (k - 1) \div 2
                              kind == IF (k - 1) % 2 = 0 THEN "left"
                                      ELSE "right"
                          IN  Vertex(kind, pts[i + 1], direction(pts, i), 0)]
             quads == [k \in 1..(6 * (n - 1)) |->
                          LET i == (k - 1) \div 6
                              i0 == U16(i * 2)
                              i1 == U16(i * 2 + 1)
                              i2 == U16((i + 1) * 2)
                              i3 == U16((i + 1) * 2 + 1)
                          IN  <<i0, i1, i2, i2, i1, i3>>[((k - 1) % 6) + 1]]
             ribbon == [vertices |-> rails, indices |-> quads]
             with_start == IF draw_start_cap
                           THEN draw_cap(ribbon, pts[1], direction(pts, 0))
                           ELSE ribbon
         IN  IF draw_end_cap
             THEN draw_cap(with_start, pts[n], direction(pts, n - 1))
             ELSE with_start

\* the window taken one point longer before the last-chunk test
chunk_window_wide(st, max, n) ==
    LET end0 == IF st + max + 1 < n - 1 THEN st + max + 1 ELSE n - 1
        is_last_chunk == (end0 = n - 1)
    IN  [end |-> IF is_last_chunk THEN end0 ELSE end0 + 1,
         is_last_chunk |-> is_last_chunk]

\* let mut end = (start + max_chunk_points).min(n - 1);
\* let is_last_chunk = end == n - 1; if !is_last_chunk { end += 1; }
\* (main.rs:589-594)
chunk_window(st, max, n) ==
    LET end0 == IF st + max < n - 1 THEN st + max ELSE n - 1
        is_last_chunk == (end0 = n - 1)
    IN  [end |-> IF is_last_chunk THEN end0 ELSE end0 + 1,
         is_last_chunk |-> is_last_chunk]

\* the next window starting at the last point of this one
chunk_next_start_at_end(w) == IF ~w.is_last_chunk THEN w.end ELSE w.end + 1

\* if !is_last_chunk { start = end - 1 } else { start = end + 1 }
\* (main.rs:604-609)
chunk_next_start(w) == IF ~w.is_last_chunk THEN w.end - 1 ELSE w.end + 1

\* the call made by one iteration of the loop (main.rs:596-601)
chunk_call(st, w, n) ==
    [start |-> st, end |-> w.end,
     draw_start_cap |-> (st = 0), draw_end_cap |-> (w.end = n - 1)]

\* every index of the chunk one too high
chunk_mesh_index_shift(pts, c) ==
    LET m == build_stroke_mesh_chunk(SubSeq(pts, c.start + 1, c.end + 1),
                                     c.draw_start_cap, c.draw_end_cap)
    IN  [vertices |-> m.vertices,
         indices |-> [k \in 1..Len(m.indices) |-> U16(m.indices[k] + 1)]]

chunk_mesh(pts, c) ==
    build_stroke_mesh_chunk(SubSeq(pts, c.start + 1, c.end + 1),
                            c.draw_start_cap, c.draw_end_cap)

RECURSIVE submeshes_from(_, _, _, _)
submeshes_from(pts, max, st, acc) ==
    IF ~(st < Len(pts))
    THEN acc
    ELSE LET w == chunk_window(st, max, Len(pts))
             mesh == chunk_mesh(pts, chunk_call(st, w, Len(pts)))
         IN  submeshes_from(pts, max, chunk_next_start(w), Append(acc, mesh))

\* stroke_to_world_submeshes as a value (max_chunk_points >= 1)
stroke_to_world_submeshes(pts, max) ==
    IF Len(pts) < 2 THEN <<>> ELSE submeshes_from(pts, max, 0, <<>>)

(***************************************************************************)
(* Visibility and erasing: src/src/utility.rs                              *)
(***************************************************************************)
\* stands for std::f32::MAX: larger than every coordinate of the model
F32_MAX == R(1000000)

\* p.distance(pos) <= radius for some point p of the stroke
stroke_intersect(stroke, pos, radius) ==
    \E k \in 1..Len(stroke.points) :
        ~GtLen(LengthSq(VSub(stroke.points[k].pos, pos)), radius)

RECURSIVE bbox_scan(_, _, _)
bbox_scan(pts, k, box) ==
    IF k > Len(pts)
    THEN box
    ELSE LET q == pts[k].pos
         IN  bbox_scan(pts, k + 1,
                 [min_x |-> IF RLt(q[1], box.min_x) THEN q[1] ELSE box.min_x,
                  max_x |-> IF RLt(box.max_x, q[1]) THEN q[1] ELSE box.max_x,
                  min_y |-> IF RLt(q[2], box.min_y) THEN q[2] ELSE box.min_y,
                  max_y |-> IF RLt(box.max_y, q[2]) THEN q[2] ELSE box.max_y])

stroke_bounding_box(pts) ==
    bbox_scan(pts, 1, [min_x |-> F32_MAX, max_x |-> RNeg(F32_MAX),
                       min_y |-> F32_MAX, max_y |-> RNeg(F32_MAX)])

\* a box that only touches the viewport rejected
is_stroke_visible_strict(stroke, off, z, screen_w, screen_h) ==
    LET box == stroke_bounding_box(stroke.points)
        visible_left == off[1]
        visible_top == off[2]
        visible_right == RAdd(off[1], RDiv(screen_w, z))
        visible_bottom == RAdd(off[2], RDiv(screen_h, z))
    IN  ~(\/ RLe(box.max_x, visible_left)
          \/ RLe(visible_right, box.min_x)
          \/ RLe(box.max_y, visible_top)
          \/ RLe(visible_bottom, box.min_y))

is_stroke_visible(stroke, off, z, screen_w, screen_h) ==
    LET box == stroke_bounding_box(stroke.points)
        visible_left == off[1]
        visible_top == off[2]
        visible_right == RAdd(off[1], RDiv(screen_w, z))
        visible_bottom == RAdd(off[2], RDiv(screen_h, z))
    IN  ~(\/ RLt(box.max_x, visible_left)
          \/ RLt(visible_right, box.min_x)
          \/ RLt(box.max_y, visible_top)
          \/ RLt(visible_bottom, box.min_y))

(***************************************************************************)
(* Screen transform: src/src/utility.rs.  Here a vertex has its position   *)
(* as numbers: position = <<x, y, z>>, with uv, color and normal beside.   *)
(***************************************************************************)
\* the zoom applied about the pivot before the offset is taken off
transform_zoom_first(mesh, off, z, piv) ==
    [vertices |->
        [k \in 1..Len(mesh.vertices) |->
            LET v == mesh.vertices[k]
                pos0 == <<v.position[1], v.position[2]>>
                pos1 == VAdd(piv, VScale(VSub(pos0, piv), z))
                pos2 == VSub(pos1, off)
            IN  [v EXCEPT !.position = <<pos2[1], pos2[2], R(0)>>]],
     indices |-> mesh.indices,
     texture |-> mesh.texture]

\* transform_mesh_absolute (utility.rs:187-223)
transform_mesh_absolute(mesh, off, z, piv) ==
    [vertices |->
        [k \in 1..Len(mesh.vertices) |->
            LET v == mesh.vertices[k]
                pos0 == <<v.position[1], v.position[2]>>
                pos1 == VSub(pos0, off)
                pos2 == VAdd(piv, VScale(VSub(pos1, piv), z))
            IN  [v EXCEPT !.position = <<pos2[1], pos2[2], R(0)>>]],
     indices |-> mesh.indices,
     texture |-> mesh.texture]

(***************************************************************************)
(* InfiniteCanvas and CommandStack: src/src/main.rs, src/src/command.rs    *)
(***************************************************************************)
Stroke(pts) == [points |-> pts]

AddStrokeCmd(s) == [kind |-> "AddStroke", stroke |-> s]

RemoveStrokeCmd(s) == [kind |-> "RemoveStroke", stroke |-> s]

\* self.command_stack (main.rs:79)
command_stack == [undo_stack |-> undo_stack, redo_stack |-> redo_stack]

\* the redo stack emptied by the push
push_undo_clear_redo(cs, comm) ==
    [undo_stack |-> Append(cs.undo_stack, comm), redo_stack |-> <<>>]

\* CommandStack::push_undo (command.rs:29-31)
push_undo(cs, comm) == [cs EXCEPT !.undo_stack = Append(@, comm)]

\* CommandStack::push_redo (command.rs:33-35)
push_redo(cs, comm) == [cs EXCEPT !.redo_stack = Append(@, comm)]

\* Vec::pop: the last element, or None, and the stack that is left
Last(seq) == IF seq = <<>> THEN None ELSE Some(seq[Len(seq)])

Front(seq) == IF seq = <<>> THEN seq ELSE SubSeq(seq, 1, Len(seq) - 1)

\* CommandStack::pop_undo (command.rs:37-39)
pop_undo(cs) ==
    [popped |-> Last(cs.undo_stack),
     command_stack |-> [cs EXCEPT !.undo_stack = Front(@)]]

\* CommandStack::pop_redo (command.rs:41-43)
pop_redo(cs) ==
    [popped |-> Last(cs.redo_stack),
     command_stack |-> [cs EXCEPT !.redo_stack = Front(@)]]

\* Vec::remove(i), i 0-based
Remove(seq, i) == SubSeq(seq, 1, i) \o SubSeq(seq, i + 2, Len(seq))

\* the index of the last stroke given for any match
position_last(list, stroke) ==
    IF \E k \in 1..Len(list) : list[k] = stroke
    THEN Some(Len(list) - 1)
    ELSE None

\* iter().position(|s| *s == stroke): the first 0-based index, or None
position(list, stroke) ==
    IF \E k \in 1..Len(list) : list[k] = stroke
    THEN Some((CHOOSE k \in 1..Len(list) :
                   /\ list[k] = stroke
                   /\ \A j \in 1..(k - 1) : list[j] # stroke) - 1)
    ELSE None

\* the max_chunk_points draw passes (main.rs:283)
DRAW_MAX_CHUNK_POINTS == 800

\* Stroke::add_point (main.rs:50-53)
add_point(stroke, pos, pressure, z) ==
    LET thickness == RMax(RMul(pressure, RDiv(R(1), z)), Half)
    IN  Stroke(Append(stroke.points, [pos |-> pos, r |-> thickness]))

\* what finalize_stroke makes of the in-progress stroke (main.rs:145-148)
finalized(stroke) ==
    Stroke(catmull_rom_spline(ramer_douglas_peucker(stroke.points, Half), 10))

\* the cache slot removed one place too far
cache_remove_next(cache, idx) ==
    IF idx + 1 < Len(cache) THEN Remove(cache, idx + 1) ELSE Remove(cache, idx)

\* self.stroke_cache.remove(idx) (main.rs:128, 210, 235)
cache_remove(cache, idx) == Remove(cache, idx)

\* the stroke put back at the front of the list
redo_add_front(list, stroke) == <<stroke>> \o list

\* redo of AddStroke: self.strokes.push(stroke.clone()) (main.rs:228)
redo_add(list, stroke) == Append(list, stroke)

\* the erased stroke put back at the front of the list
undo_remove_front(list, stroke) == <<stroke>> \o list

\* undo of RemoveStroke: self.strokes.push(stroke.clone()) (main.rs:215)
undo_remove(list, stroke) == Append(list, stroke)

\* the strokes, the cache and the command stack of self
canvas ==
    [strokes |-> strokes, stroke_cache |-> stroke_cache,
     command_stack |-> command_stack]

\* undo (main.rs:204-221) on the canvas c
undo(c) ==
    LET p == pop_undo(c.command_stack)
    IN  IF p.popped = None
        THEN c
        ELSE LET comm == p.popped[1]
                 idx == position(c.strokes, comm.stroke)
             IN  IF comm.kind = "AddStroke"
                 THEN IF idx # None
                      THEN [strokes |-> Remove(c.strokes, idx[1]),
                            stroke_cache |->
                                cache_remove(c.stroke_cache, idx[1]),
                            command_stack |->
                                push_redo(p.command_stack, comm)]
                      ELSE [c EXCEPT !.command_stack = p.command_stack]
                 ELSE [strokes |-> undo_remove(c.strokes, comm.stroke),
                       stroke_cache |-> Append(c.stroke_cache, None),
                       command_stack |-> push_redo(p.command_stack, comm)]

\* redo (main.rs:224-241) on the canvas c
redo(c) ==
    LET p == pop_redo(c.command_stack)
    IN  IF p.popped = None
        THEN c
        ELSE LET comm == p.popped[1]
                 idx == position(c.strokes, comm.stroke)
             IN  IF comm.kind = "AddStroke"
                 THEN [strokes |-> redo_add(c.strokes, comm.stroke),
                       stroke_cache |-> Append(c.stroke_cache, None),
                       command_stack |-> push_undo(p.command_stack, comm)]
                 ELSE IF idx # None
                      THEN [strokes |-> Remove(c.strokes, idx[1]),
                            stroke_cache |->
                                cache_remove(c.stroke_cache, idx[1]),
                            command_stack |->
                                push_undo(p.command_stack, comm)]
                      ELSE [c EXCEPT !.command_stack = p.command_stack]

\* the loop going on to index i + 1 after a removal
RECURSIVE erase_loop_skip(_, _, _, _, _, _)
erase_loop_skip(list, cache, cs, i, pos, radius) ==
    IF ~(i < Len(list))
    THEN [strokes |-> list, stroke_cache |-> cache, command_stack |-> cs]
    ELSE IF stroke_intersect(list[i + 1], pos, radius)
         THEN erase_loop_skip(Remove(list, i), cache_remove(cache, i),
                              push_undo(cs, RemoveStrokeCmd(list[i + 1])),
                              i + 1, pos, radius)
         ELSE erase_loop_skip(list, cache, cs, i + 1, pos, radius)

\* the while loop of erase_stroke_at (main.rs:124-133) from index i on
RECURSIVE erase_loop(_, _, _, _, _, _)
erase_loop(list, cache, cs, i, pos, radius) ==
    IF ~(i < Len(list))
    THEN [strokes |-> list, stroke_cache |-> cache, command_stack |-> cs]
    ELSE IF stroke_intersect(list[i + 1], pos, radius)
         THEN erase_loop(Remove(list, i), cache_remove(cache, i),
                         push_undo(cs, RemoveStrokeCmd(list[i + 1])),
                         i, pos, radius)
         ELSE erase_loop(list, cache, cs, i + 1, pos, radius)

\* finalize_stroke (main.rs:143-153) on the canvas c with the in-progress
\* stroke cur
finalize_stroke(c, cur) ==
    IF cur = None
    THEN c
    ELSE LET stroke == finalized(cur[1])
         IN  [strokes |-> Append(c.strokes, stroke),
              stroke_cache |-> Append(c.stroke_cache, None),
              command_stack |->
                  push_undo(c.command_stack, AddStrokeCmd(stroke))]

\* erase_stroke_at (main.rs:122-134) on the canvas c at zoom z
erase_stroke_at(c, pos, z) ==
    erase_loop(c.strokes, c.stroke_cache, c.command_stack, 0, pos,
               RMul(R(10), RDiv(R(1), z)))

\* the slot of a stroke that is not visible left as it is
draw_slot_keep(stroke, slot, off, z, screen_w, screen_h) ==
    IF is_stroke_visible(stroke, off, z, RMul(screen_w, R(3)),
                         RMul(screen_h, R(3)))
    THEN IF slot = None
         THEN Some(stroke_to_world_submeshes(stroke.points,
                                             DRAW_MAX_CHUNK_POINTS))
         ELSE slot
    ELSE slot

\* the cache slot draw leaves for stroke i (main.rs:280-301)
draw_slot(stroke, slot, off, z, screen_w, screen_h) ==
    IF is_stroke_visible(stroke, off, z, RMul(screen_w, R(3)),
                         RMul(screen_h, R(3)))
    THEN IF slot = None
         THEN Some(stroke_to_world_submeshes(stroke.points,
                                             DRAW_MAX_CHUNK_POINTS))
         ELSE slot
    ELSE None

(***************************************************************************)
(* The canvas under any sequence of its operations, whatever input led to *)
(* each of them; the input fields are followed by SpecTick.                *)
(***************************************************************************)
\* the stroke list holds at most MaxStrokes strokes
MaxStrokes == 2

\* the two command stacks hold at most MaxCmds commands together
MaxCmds == 3

\* an in-progress stroke holds at most MaxStrokePts points
MaxStrokePts == 2

\* the window, in pixels (macroquad's screen_width() and screen_height())
ScreenW == 8

ScreenH == 6

\* zoom is followed while its denominator is at most MaxZoomDen
MaxZoomDen == 10

\* where the pen writes
PenPts == {<<R(14), R(0)>>}

\* where the eraser is put down: the two spots are 10 apart
ErasePts == {<<R(14), R(0)>>, <<R(22), R(6)>>}

Pressures == {Rat(1, 4)}

Offsets == {<<R(0), R(0)>>, <<R(15), R(0)>>}

ZoomFactors == {Rat(11, 10)}

FileStrokeA == Stroke(<<Pt(22, 6, Half), Pt(30, 6, R(1))>>)

\* the canvases a file may hold
Files ==
    {[strokes |-> l, offset |-> <<R(0), R(0)>>, zoom |-> R(1)] :
        l \in {<<FileStrokeA>>, <<FileStrokeA, FileStrokeA>>}}

Init ==
    /\ CanvasNew
    /\ FnIdle

\* the pen is down in Pen mode (main.rs:678-686)
AddPoint(pos, pressure) ==
    /\ current_stroke # None => Len(current_stroke[1].points) < MaxStrokePts
    /\ current_stroke' =
           Some(add_point(IF current_stroke = None THEN Stroke(<<>>)
                          ELSE current_stroke[1], pos, pressure, zoom))
    /\ hist' = NoHist
    /\ UNCHANGED <<strokes, stroke_cache, undo_stack, redo_stack, offset, zoom>>
    /\ UNCHANGED <<input_vars, fn_vars>>

\* the pen is up in Pen mode: canvas.finalize_stroke() (main.rs:692-695)
FinalizeStroke ==
    /\ IF current_stroke = None
       THEN UNCHANGED <<strokes, stroke_cache, undo_stack, redo_stack,
                        current_stroke, hist>>
       ELSE /\ Len(strokes) < MaxStrokes
            /\ Len(undo_stack) + Len(redo_stack) < MaxCmds
            /\ \E c \in {finalize_stroke(canvas, current_stroke)} :
                   /\ undo_stack' = c.command_stack.undo_stack
                   /\ redo_stack' = c.command_stack.redo_stack
                   /\ strokes' = c.strokes
                   /\ stroke_cache' = c.stroke_cache
                   /\ hist' = [op |-> "finalize", before |-> strokes,
                               after |-> c.strokes]
            /\ current_stroke' = None
    /\ UNCHANGED <<offset, zoom>>
    /\ UNCHANGED <<input_vars, fn_vars>>

\* the pen is down in Eraser mode: canvas.erase_stroke_at(world_pos)
\* (main.rs:688-690)
EraseStrokeAt(pos) ==
    /\ UNCHANGED <<current_stroke, offset, zoom>>
    /\ hist' = NoHist
    /\ \E e \in {erase_stroke_at(canvas, pos, zoom)} :
           /\ Len(e.command_stack.undo_stack) + Len(redo_stack) <= MaxCmds
           /\ strokes' = e.strokes
           /\ stroke_cache' = e.stroke_cache
           /\ undo_stack' = e.command_stack.undo_stack
           /\ redo_stack' = e.command_stack.redo_stack
    /\ UNCHANGED <<input_vars, fn_vars>>

\* Ctrl+Z: canvas.undo() (main.rs:703-705); an undo that would take the
\* list past MaxStrokes is not followed
Undo ==
    /\ (undo_stack # <<>> /\ undo_stack[Len(undo_stack)].kind = "RemoveStroke")
           => Len(strokes) < MaxStrokes
    /\ \E c \in {undo(canvas)} :
           /\ strokes' = c.strokes
           /\ stroke_cache' = c.stroke_cache
           /\ undo_stack' = c.command_stack.undo_stack
           /\ redo_stack' = c.command_stack.redo_stack
    /\ hist' = IF hist.op = "finalize"
               THEN [hist EXCEPT !.op = "finalize_undo"]
               ELSE NoHist
    /\ UNCHANGED <<current_stroke, offset, zoom>>
    /\ UNCHANGED <<input_vars, fn_vars>>

\* Ctrl+R: canvas.redo() (main.rs:706-708); a redo that would take the list
\* past MaxStrokes is not followed
Redo ==
    /\ (redo_stack # <<>> /\ redo_stack[Len(redo_stack)].kind = "AddStroke")
           => Len(strokes) < MaxStrokes
    /\ \E c \in {redo(canvas)} :
           /\ strokes' = c.strokes
           /\ stroke_cache' = c.stroke_cache
           /\ undo_stack' = c.command_stack.undo_stack
           /\ redo_stack' = c.command_stack.redo_stack
    /\ hist' = IF hist.op = "finalize_undo"
               THEN [hist EXCEPT !.op = "finalize_undo_redo"]
               ELSE NoHist
    /\ UNCHANGED <<current_stroke, offset, zoom>>
    /\ UNCHANGED <<input_vars, fn_vars>>

\* clear (main.rs:112-115)
Clear ==
    /\ stroke_cache' = <<>>
    /\ strokes' = <<>>
    /\ hist' = NoHist
    /\ UNCHANGED <<current_stroke, undo_stack, redo_stack, offset, zoom>>
    /\ UNCHANGED <<input_vars, fn_vars>>

\* load_from_json with a file picked (main.rs:170-201)
LoadFromJson(data) ==
    /\ strokes' = data.strokes
    /\ offset' = data.offset
    /\ zoom' = data.zoom
    /\ stroke_cache' = [k \in 1..Len(data.strokes) |-> None]
    /\ undo_stack' = <<>>
    /\ redo_stack' = <<>>
    /\ hist' = NoHist
    /\ UNCHANGED current_stroke
    /\ UNCHANGED <<input_vars, fn_vars>>

\* the stroke pass of draw (main.rs:278-302)
Draw ==
    /\ UNCHANGED <<strokes, current_stroke, undo_stack, redo_stack, offset,
                   zoom>>
    /\ hist' = NoHist
    /\ stroke_cache' =
           [i \in 1..Len(strokes) |->
               draw_slot(strokes[i], stroke_cache[i], offset, zoom,
                         R(ScreenW), R(ScreenH))]
    /\ UNCHANGED <<input_vars, fn_vars>>

\* panning with the stylus button held (main.rs:656-665)
Pan(off) ==
    /\ offset' = off
    /\ hist' = NoHist
    /\ UNCHANGED <<strokes, stroke_cache, current_stroke, undo_stack,
                   redo_stack, zoom>>
    /\ UNCHANGED <<input_vars, fn_vars>>

\* the mouse wheel (main.rs:667-673)
Zoom(factor) ==
    /\ zoom[2] * 10 <= MaxZoomDen
    /\ zoom' = RMin(RMax(RMul(zoom, factor), Rat(1, 10)), R(10))
    /\ hist' = NoHist
    /\ UNCHANGED <<strokes, stroke_cache, current_stroke, undo_stack,
                   redo_stack, offset>>
    /\ UNCHANGED <<input_vars, fn_vars>>

Next ==
    \/ \E pos \in PenPts, pressure \in Pressures : AddPoint(pos, pressure)
    \/ FinalizeStroke
    \/ \E pos \in ErasePts : EraseStrokeAt(pos)
    \/ Undo
    \/ Redo
    \/ Clear
    \/ \E data \in Files : LoadFromJson(data)
    \/ Draw
    \/ \E off \in Offsets : Pan(off)
    \/ \E factor \in ZoomFactors : Zoom(factor)

Spec == Init /\ [][Next]_vars

\* C1: the stroke list and the stroke cache have the same length, and every
\* non-empty cache slot i holds the chunks built from the points of the
\* stroke now at index i.
C1_CacheAligned ==
    /\ Len(stroke_cache) = Len(strokes)
    /\ \A i \in 1..Len(strokes) :
           stroke_cache[i] # None =>
               stroke_cache[i] =
                   Some(stroke_to_world_submeshes(strokes[i].points,
                                                  DRAW_MAX_CHUNK_POINTS))

\* a stroke of two points or more with its chunks built, left alone in the
\* list by the undo of the AddStroke of a different stroke of two points or
\* more (whose slot went with it)
C1_Witness ==
    /\ Len(strokes) = 1
    /\ Len(strokes[1].points) >= 2
    /\ stroke_cache[1] # None
    /\ stroke_cache[1][1] # <<>>
    /\ redo_stack # <<>>
    /\ redo_stack[Len(redo_stack)].kind = "AddStroke"
    /\ Len(redo_stack[Len(redo_stack)].stroke.points) >= 2
    /\ redo_stack[Len(redo_stack)].stroke # strokes[1]

InList(s, list) == \E k \in 1..Len(list) : list[k] = s

\* the last finalize added a stroke that differs from every stroke that was
\* in the list
FinalizedFresh ==
    /\ hist.op # "none"
    /\ ~InList(hist.after[Len(hist.after)], hist.before)

\* C2: right after finalizing a stroke that differs from every stroke in
\* the list, undo() leaves the list as it was before the finalize and the
\* redo() that follows leaves it as it was right after the finalize (from
\* the empty canvas: add A, add B, undo gives [A], redo gives [A, B]).
C2_UndoRedoOfFinalize ==
    FinalizedFresh =>
        /\ hist.op = "finalize_undo" => strokes = hist.before
        /\ hist.op = "finalize_undo_redo" => strokes = hist.after

\* add A, add B (A # B), undo, redo with nothing else on the stacks
C2_Witness ==
    /\ hist.op = "finalize_undo_redo"
    /\ Len(hist.before) = 1
    /\ Len(hist.after) = 2
    /\ hist.after[2] # hist.after[1]
    /\ undo_stack = <<AddStrokeCmd(hist.after[1]), AddStrokeCmd(hist.after[2])>>
    /\ redo_stack = <<>>
    /\ strokes = hist.after

\* C20: finalize_stroke and erase_stroke_at push onto the undo stack only
\* (what was on it stays below) and leave the redo stack as it was (stated
\* here the other way round: a step that changes the redo stack, or does
\* other than push onto the undo stack, is neither of the two), so a
\* command undone earlier is still on the redo stack after a later forward
\* action, and redo() of such an AddStroke(A) puts A back at the end of the
\* list (add(A); undo; add(B); redo gives [B, A]).
C20_ForwardKeepsRedo ==
    [][/\ ~(/\ redo_stack' = redo_stack
            /\ Len(undo_stack') >= Len(undo_stack)
            /\ SubSeq(undo_stack', 1, Len(undo_stack)) = undo_stack)
           => ~(FinalizeStroke \/ \E pos \in ErasePts : EraseStrokeAt(pos))
       /\ (/\ Redo
           /\ redo_stack # <<>>
           /\ redo_stack[Len(redo_stack)].kind = "AddStroke")
           => strokes' =
                  Append(strokes, redo_stack[Len(redo_stack)].stroke)]_vars

\* add(A); undo; add(B): the finalize of B has just run and AddStroke(A) is
\* still on the redo stack, with A out of the list
C20_Witness ==
    /\ hist.op = "finalize"
    /\ hist.before = <<>>
    /\ Len(strokes) = 1
    /\ undo_stack = <<AddStrokeCmd(strokes[1])>>
    /\ Len(redo_stack) = 1
    /\ redo_stack[1].kind = "AddStroke"
    /\ redo_stack[1].stroke # strokes[1]

\* C19: undo() of a RemoveStroke(s) command appends s at the end of the
\* stroke list with an empty cache slot at the same end position and pushes
\* RemoveStroke(s) onto the redo stack; the strokes already in the list and
\* their slots keep their indices.
C19_UndoOfRemoveAppends ==
    [][(/\ Undo
        /\ undo_stack # <<>>
        /\ undo_stack[Len(undo_stack)].kind = "RemoveStroke")
          => LET s == undo_stack[Len(undo_stack)].stroke
             IN  /\ strokes' = Append(strokes, s)
                 /\ stroke_cache' = Append(stroke_cache, None)
                 /\ redo_stack' = Append(redo_stack, RemoveStrokeCmd(s))
                 /\ undo_stack' = SubSeq(undo_stack, 1, Len(undo_stack) - 1)
                 /\ \A i \in 1..Len(strokes) :
                        /\ strokes'[i] = strokes[i]
                        /\ stroke_cache'[i] = stroke_cache[i]]_vars

\* the first of two strokes was erased and the erase undone: it is now the
\* second, with an empty slot, behind the stroke added after it, whose slot
\* is still built
C19_Witness ==
    /\ Len(strokes) = 2
    /\ strokes[1] # strokes[2]
    /\ undo_stack = <<AddStrokeCmd(strokes[1])>>
    /\ redo_stack = <<RemoveStrokeCmd(strokes[2])>>
    /\ stroke_cache[1] # None
    /\ stroke_cache[2] = None

\* the visibility test the draw pass makes for a stroke (main.rs:280)
PassesDrawTest(stroke) ==
    is_stroke_visible(stroke, offset, zoom, RMul(R(ScreenW), R(3)),
                      RMul(R(ScreenH), R(3)))

\* C18: after every draw pass the cache slot of stroke i is non-empty
\* exactly if stroke i passed the visibility test of that pass: the slot of
\* a stroke that fails it is set to empty, an empty slot of a stroke that
\* passes it is built in that pass (with a chunk in it if the stroke has 2
\* points or more), a built slot of a stroke that passes it is kept; the
\* stroke list, the cache length and the command stacks are as before the
\* pass.
C18_DrawSlots ==
    [][Draw =>
          /\ strokes' = strokes
          /\ Len(stroke_cache') = Len(stroke_cache)
          /\ undo_stack' = undo_stack
          /\ redo_stack' = redo_stack
          /\ \A i \in 1..Len(strokes) :
                 LET passes == PassesDrawTest(strokes[i])
                 IN  /\ stroke_cache'[i] # None <=> passes
                     /\ (passes /\ Len(strokes[i].points) >= 2)
                            => stroke_cache'[i][1] # <<>>
                     /\ (passes /\ stroke_cache[i] # None)
                            => stroke_cache'[i] = stroke_cache[i]]_vars

\* two strokes of two points or more after a draw pass: the first is out of
\* the view and its slot is empty, the second is in the view and its slot
\* holds its chunks
C18_Witness ==
    /\ Len(strokes) = 2
    /\ Len(strokes[1].points) >= 2
    /\ Len(strokes[2].points) >= 2
    /\ ~PassesDrawTest(strokes[1])
    /\ PassesDrawTest(strokes[2])
    /\ stroke_cache[1] = None
    /\ stroke_cache[2] # None
    /\ stroke_cache[2][1] # <<>>

\* C16: no vertex of a cached chunk was computed from a zero-length
\* direction (the vector build_stroke_mesh_chunk normalizes), whatever the
\* strokes drawn, the two-point stroke [p, p] of a pen that did not move
\* included.
C16_NoZeroDirection ==
    \A i \in 1..Len(stroke_cache) :
        stroke_cache[i] # None =>
            \A c \in 1..Len(stroke_cache[i][1]) :
                \A k \in 1..Len(stroke_cache[i][1][c].vertices) :
                    stroke_cache[i][1][c].vertices[k].dir # <<R(0), R(0)>>

(***************************************************************************)
(* One call of ramer_douglas_peucker on drawn arguments.                   *)
(***************************************************************************)
MaxRdpLen == 4

RdpPoints ==
    {Pt(0, 0, R(1)), Pt(2, 0, R(1)), Pt(4, 0, R(2)), Pt(2, 1, R(1)),
     Pt(2, 1, R(2))}

RdpEpsilons == {R(0), Rat(1, 2), R(1), R(2)}

SeqsUpTo(S, n) == UNION {[1..k -> S] : k \in 0..n}

InitRdp ==
    /\ CanvasNew
    /\ pc = "call"
    /\ points \in SeqsUpTo(RdpPoints, MaxRdpLen)
    /\ epsilon \in RdpEpsilons
    /\ segments = 0
    /\ max_chunk_points = 0
    /\ start = 0
    /\ calls = <<>>
    /\ result = <<>>
    /\ NoArgs

RdpCall ==
    /\ pc = "call"
    /\ result' = ramer_douglas_peucker(points, epsilon)
    /\ pc' = "done"
    /\ UNCHANGED <<points, epsilon, segments, max_chunk_points, start, calls>>
    /\ UNCHANGED arg_vars
    /\ UNCHANGED canvas_vars

NextRdp == RdpCall

SpecRdp == InitRdp /\ [][NextRdp]_vars

\* The interior points of pts all lie within eps of the chord first-last.
WithinEpsilon(pts, eps) ==
    \A i \in 2..(Len(pts) - 1) :
        ~GtLen(perpendicular_distance_sq(pts[i].pos, pts[1].pos,
                                         pts[Len(pts)].pos), eps)

C7_EndpointsPreserved ==
    (pc = "done" /\ Len(points) >= 2)
        => /\ Len(result) >= 2
           /\ result[1] = points[1]
           /\ result[Len(result)] = points[Len(points)]

\* a call that recursed (an interior point survived) and joined two halves
C7_Witness ==
    /\ pc = "done"
    /\ Len(points) = 4
    /\ Len(result) = 3
    /\ result[1] = points[1]
    /\ result[3] = points[4]
    /\ points[1] # points[4]

\* C8: the number of points returned does not grow with epsilon: every
\* larger epsilon of the drawn set returns at most as many points as the
\* call made.
C8_MonotoneInEpsilon ==
    pc = "done" =>
        \A e2 \in RdpEpsilons :
            RLe(epsilon, e2) =>
                Len(ramer_douglas_peucker(points, e2)) <= Len(result)

\* a call that kept 4 points where a larger epsilon keeps only 2
C8_Witness ==
    /\ pc = "done"
    /\ epsilon = R(0)
    /\ Len(result) = 4
    /\ Len(ramer_douglas_peucker(points, R(2))) = 2

(***************************************************************************)
(* One call of catmull_rom_spline on drawn arguments.                      *)
(***************************************************************************)
MaxCrLen == 5

MaxSegments == 3

CrPoints ==
    {Pt(0, 0, R(1)), Pt(2, 0, Rat(1, 2)), Pt(2, 3, R(2)), Pt(-1, 1, R(1))}

InitCr ==
    /\ CanvasNew
    /\ pc = "call"
    /\ points \in SeqsUpTo(CrPoints, MaxCrLen)
    /\ segments \in 0..MaxSegments
    /\ epsilon = R(0)
    /\ max_chunk_points = 0
    /\ start = 0
    /\ calls = <<>>
    /\ result = <<>>
    /\ NoArgs

CrCall ==
    /\ pc = "call"
    /\ result' = catmull_rom_spline(points, segments)
    /\ pc' = "done"
    /\ UNCHANGED <<points, epsilon, segments, max_chunk_points, start, calls>>
    /\ UNCHANGED arg_vars
    /\ UNCHANGED canvas_vars

NextCr == CrCall

SpecCr == InitCr /\ [][NextCr]_vars

\* C9 as stated: for n >= 4 points and S segments per span the output holds
\* exactly (n-3)*S + 1 points.
C9_LengthAsStated ==
    (pc = "done" /\ Len(points) >= 4)
        => Len(result) = (Len(points) - 3) * segments + 1

\* C9 as the code has it: for n >= 4 points and S segments per span the
\* output holds exactly (n-1)*S + 1 points (one span per pair of
\* consecutive input points, the sequence being padded at both ends).
C9_Length ==
    (pc = "done" /\ Len(points) >= 4)
        => Len(result) = (Len(points) - 1) * segments + 1

\* a call on 5 points with 3 segments per span, 13 points returned
C9_Witness ==
    /\ pc = "done"
    /\ Len(points) = 5
    /\ segments = 3
    /\ Len(result) = 13

\* C10: for n >= 4 points and S >= 1 every input point occurs in the output
\* in its original order: the first sample of span k is input point k
\* exactly (position and radius), and the last input point is the last
\* output element.
C10_PassesThroughInputs ==
    (pc = "done" /\ Len(points) >= 4 /\ segments >= 1)
        => /\ \A k \in 1..(Len(points) - 1) :
                  /\ (k - 1) * segments + 1 <= Len(result)
                  /\ result[(k - 1) * segments + 1] = points[k]
           /\ result[Len(result)] = points[Len(points)]

\* a call on 4 distinct points with 2 segments per span, whose samples
\* between the input points are not input points
C10_Witness ==
    /\ pc = "done"
    /\ Len(points) = 4
    /\ segments = 2
    /\ Cardinality({points[k] : k \in 1..4}) = 4
    /\ result[3] = points[2]
    /\ result[2] \notin {points[k] : k \in 1..4}

(***************************************************************************)
(* One call of stroke_to_world_submeshes on drawn arguments, one loop      *)
(* iteration per step.                                                     *)
(***************************************************************************)
MaxChunkLen == 6

MaxChunkParam == 3

\* the loop is followed for at most this many iterations
MaxChunks == 8

ChunkInputs ==
    {[i \in 1..n |-> Pt(i * dx, (i % 2) * dy, R(1))] :
        n \in 0..MaxChunkLen, dx \in {0, 1}, dy \in {0, 1}}

InitChunk ==
    /\ CanvasNew
    /\ pc = "call"
    /\ points \in ChunkInputs
    /\ max_chunk_points \in 0..MaxChunkParam
    /\ epsilon = R(0)
    /\ segments = 0
    /\ start = 0
    /\ calls = <<>>
    /\ result = <<>>
    /\ NoArgs

\* main.rs:580-586
ChunkEnter ==
    /\ pc = "call"
    /\ pc' = IF Len(points) < 2 THEN "done" ELSE "loop"
    /\ start' = 0
    /\ result' = <<>>
    /\ UNCHANGED <<points, epsilon, segments, max_chunk_points, calls>>
    /\ UNCHANGED arg_vars
    /\ UNCHANGED canvas_vars

\* one iteration of `while start < n` (main.rs:588-610)
ChunkStep ==
    /\ pc = "loop"
    /\ start < Len(points)
    /\ Len(result) < MaxChunks
    /\ LET w == chunk_window(start, max_chunk_points, Len(points))
           c == chunk_call(start, w, Len(points))
       IN  /\ calls' = Append(calls, c)
           /\ result' = Append(result, chunk_mesh(points, c))
           /\ start' = chunk_next_start(w)
    /\ UNCHANGED <<pc, points, epsilon, segments, max_chunk_points>>
    /\ UNCHANGED arg_vars
    /\ UNCHANGED canvas_vars

\* the loop exit and `result` returned (main.rs:588, 612)
ChunkReturn ==
    /\ pc = "loop"
    /\ ~(start < Len(points))
    /\ pc' = "done"
    /\ UNCHANGED <<points, epsilon, segments, max_chunk_points, start, calls,
                   result>>
    /\ UNCHANGED arg_vars
    /\ UNCHANGED canvas_vars

NextChunk == ChunkEnter \/ ChunkStep \/ ChunkReturn

SpecChunk == InitChunk /\ [][NextChunk]_vars

Window(c) == SubSeq(points, c.start + 1, c.end + 1)

NumCaps(cs) ==
    Cardinality({k \in 1..Len(cs) : cs[k].draw_start_cap})
    + Cardinality({k \in 1..Len(cs) : cs[k].draw_end_cap})

\* C3: for n >= 2 points and max_chunk_points >= 1 the chunks hold exactly
\* two caps: a start cap in the first chunk only and an end cap in the last
\* chunk only.
C3_ExactlyTwoCaps ==
    (pc = "done" /\ Len(points) >= 2 /\ max_chunk_points >= 1)
        => /\ NumCaps(calls) = 2
           /\ \A k \in 1..Len(calls) :
                  /\ calls[k].draw_start_cap <=> (k = 1)
                  /\ calls[k].draw_end_cap <=> (k = Len(calls))

RECURSIVE Stitch(_, _, _)
\* the windows cs[k..] concatenated, `shared` leading points dropped from
\* every window but the first
Stitch(cs, k, shared) ==
    IF k > Len(cs)
    THEN <<>>
    ELSE LET w == Window(cs[k])
             kept == IF k = 1 THEN w ELSE SubSeq(w, shared + 1, Len(w))
         IN  kept \o Stitch(cs, k + 1, shared)

\* C4 as stated: consecutive windows overlap by exactly one point (the last
\* point of a window is the first of the next), and the windows stitched
\* with that one point dropped per boundary are the original sequence.
C4_OverlapOnePoint ==
    (pc = "done" /\ Len(points) >= 2 /\ max_chunk_points >= 1)
        => /\ \A k \in 1..(Len(calls) - 1) : calls[k + 1].start = calls[k].end
           /\ Stitch(calls, 1, 1) = points

\* C4 as the code has it: consecutive windows overlap by exactly two points
\* (the last two points of a window are the first two of the next), and the
\* windows stitched with those two points dropped per boundary are the
\* original sequence, no point missing or repeated.
C4_OverlapTwoPoints ==
    (pc = "done" /\ Len(points) >= 2 /\ max_chunk_points >= 1)
        => /\ \A k \in 1..(Len(calls) - 1) :
                  /\ calls[k + 1].start = calls[k].end - 1
                  /\ calls[k + 1].end >= calls[k].end
                  /\ calls[k + 1].start >= calls[k].start
           /\ calls[1].start = 0
           /\ calls[Len(calls)].end = Len(points) - 1
           /\ Stitch(calls, 1, 2) = points

\* a finished call that made three chunks of distinct points
C4_Witness ==
    /\ pc = "done"
    /\ max_chunk_points = 2
    /\ Len(points) = 6
    /\ points[1] # points[3]
    /\ Len(calls) = 3
    /\ Len(result) = 3

\* C5: the window start index strictly increases on every loop iteration
\* (so the loop ends), for every max_chunk_points, 0 included.
C5_StartIncreases == [][ChunkStep => start' > start]_vars

\* the number of points of the window of call c
WindowLen(c) == c.end - c.start + 1

\* C17 as stated: for n >= 2 points and max_chunk_points >= 1 every window
\* passed to build_stroke_mesh_chunk holds at most max_chunk_points + 1
\* points.
C17_AtMostMaxPlusOne ==
    (Len(points) >= 2 /\ max_chunk_points >= 1)
        => \A k \in 1..Len(calls) :
               WindowLen(calls[k]) <= max_chunk_points + 1

\* C17 as the code has it: for n >= 2 points and max_chunk_points >= 1 every
\* window passed to build_stroke_mesh_chunk holds at most
\* max_chunk_points + 2 points, and every window that another one follows
\* holds exactly that many.
C17_AtMostMaxPlusTwo ==
    (Len(points) >= 2 /\ max_chunk_points >= 1)
        => /\ \A k \in 1..Len(calls) :
                  /\ WindowLen(calls[k]) <= max_chunk_points + 2
                  /\ WindowLen(calls[k]) = Len(Window(calls[k]))
           /\ \A k \in 1..(Len(calls) - 1) :
                  WindowLen(calls[k]) = max_chunk_points + 2

\* a finished call on 6 points with max_chunk_points = 3 whose first window
\* held 5 points
C17_Witness ==
    /\ pc = "done"
    /\ Len(points) = 6
    /\ max_chunk_points = 3
    /\ Len(calls) >= 2
    /\ WindowLen(calls[1]) = 5

(***************************************************************************)
(* One call of build_stroke_mesh_chunk on drawn arguments.                 *)
(***************************************************************************)
InitMesh ==
    /\ CanvasNew
    /\ pc = "call"
    /\ points \in ChunkInputs
    /\ start_cap \in BOOLEAN
    /\ end_cap \in BOOLEAN
    /\ epsilon = R(0)
    /\ segments = 0
    /\ max_chunk_points = 0
    /\ start = 0
    /\ calls = <<>>
    /\ result = <<>>
    /\ original_mesh = <<>>
    /\ pivot = <<R(0), R(0)>>
    /\ view_w = R(0)
    /\ view_h = R(0)

\* main.rs:480-573; the mesh returned is kept as the only element of result
MeshCall ==
    /\ pc = "call"
    /\ result' = <<build_stroke_mesh_chunk(points, start_cap, end_cap)>>
    /\ pc' = "done"
    /\ UNCHANGED <<points, epsilon, segments, max_chunk_points, start, calls>>
    /\ UNCHANGED arg_vars
    /\ UNCHANGED canvas_vars

NextMesh == MeshCall

SpecMesh == InitMesh /\ [][NextMesh]_vars

\* the call drew exactly one of the two caps on at least 2 points
OneCapDrawn == pc = "done" /\ Len(points) >= 2 /\ (start_cap # end_cap)

\* C11 as stated: a mesh built from n >= 2 points with exactly one cap drawn
\* has 2n + 2*(8+1) vertices and 6(n-1) + 3*8 indices.
C11_CountsAsStated ==
    OneCapDrawn =>
        /\ Len(result[1].vertices) = 2 * Len(points) + 2 * (8 + 1)
        /\ Len(result[1].indices) = 6 * (Len(points) - 1) + 3 * 8

\* C11 as the code has it: a mesh built from n >= 2 points with exactly one
\* cap drawn has 2n + (8+2) vertices (the cap adds its centre and 8+1 rim
\* vertices) and 6(n-1) + 3*8 indices.
C11_Counts ==
    OneCapDrawn =>
        /\ Len(result[1].vertices) = 2 * Len(points) + (8 + 2)
        /\ Len(result[1].indices) = 6 * (Len(points) - 1) + 3 * 8

\* a call on 3 points that drew the end cap only: 16 vertices, 36 indices
C11_Witness ==
    /\ pc = "done"
    /\ Len(points) = 3
    /\ ~start_cap
    /\ end_cap
    /\ Len(result[1].vertices) = 16
    /\ Len(result[1].indices) = 36

(***************************************************************************)
(* One call of stroke_to_world_submeshes as draw makes it, with            *)
(* max_chunk_points = 800, on long strokes, one loop iteration per step.   *)
(***************************************************************************)
\* the longest stroke drawn: three chunks of 800
MaxLongLen == 1603

\* the lengths drawn: the shortest strokes and those around every hundred
LongLens == {n \in 2..MaxLongLen : n <= 4 \/ n % 100 \in {0, 1, 2, 3}}

LongInputs == {[i \in 1..n |-> Pt(i, 0, R(1))] : n \in LongLens}

InitDrawChunks ==
    /\ CanvasNew
    /\ pc = "call"
    /\ points \in LongInputs
    /\ max_chunk_points = DRAW_MAX_CHUNK_POINTS
    /\ epsilon = R(0)
    /\ segments = 0
    /\ start = 0
    /\ calls = <<>>
    /\ result = <<>>
    /\ NoArgs

SpecDrawChunks == InitDrawChunks /\ [][NextChunk]_vars

\* C12: with max_chunk_points = 800 every chunk of a stroke of n >= 2 points
\* has an index buffer whose length is a multiple of 3 and whose every index
\* is smaller than the chunk's vertex count, and the vertex count fits in 16
\* bits (so the cast to u16 changes no index).
C12_IndicesInRange ==
    \A c \in 1..Len(result) :
        /\ Len(result[c].indices) % 3 = 0
        /\ \A k \in 1..Len(result[c].indices) :
               result[c].indices[k] < Len(result[c].vertices)
        /\ Len(result[c].vertices) < 65536

\* a finished call on 1603 points: three chunks, the first of 802 points
\* with a start cap (1614 vertices), the last with an end cap
C12_Witness ==
    /\ pc = "done"
    /\ max_chunk_points = 800
    /\ Len(points) = 1603
    /\ Len(result) = 3
    /\ Len(result[1].vertices) = 1614
    /\ Len(result[3].indices) > 0

(***************************************************************************)
(* One call of transform_mesh_absolute on drawn arguments.                 *)
(***************************************************************************)
MaxMeshVerts == 2

\* vertices of a world-space mesh; one has a depth that is not 0
MeshVertices ==
    {[position |-> <<R(0), R(0), R(0)>>, uv |-> <<R(0), R(0)>>,
      color |-> <<0, 0, 0, 255>>, normal |-> <<0, 0, 1, 0>>],
     [position |-> <<R(2), R(1), R(0)>>, uv |-> <<R(0), R(0)>>,
      color |-> <<0, 0, 0, 255>>, normal |-> <<0, 0, 1, 0>>],
     [position |-> <<R(-1), R(3), R(5)>>, uv |-> <<R(1), R(0)>>,
      color |-> <<255, 0, 0, 255>>, normal |-> <<0, 0, 1, 0>>]}

MeshIndices == {<<>>, <<0, 1, 0>>}

TransformMeshes ==
    {[vertices |-> vs, indices |-> is, texture |-> None] :
        vs \in SeqsUpTo(MeshVertices, MaxMeshVerts), is \in MeshIndices}

TransformOffsets == {<<R(0), R(0)>>, <<R(3), R(-1)>>}

TransformZooms == {R(1), Rat(1, 2), R(2)}

TransformPivots == {<<R(0), R(0)>>, <<R(1), R(1)>>}

InitTransform ==
    /\ InputNew
    /\ strokes = <<>>
    /\ stroke_cache = <<>>
    /\ current_stroke = None
    /\ undo_stack = <<>>
    /\ redo_stack = <<>>
    /\ hist = NoHist
    /\ offset \in TransformOffsets
    /\ zoom \in TransformZooms
    /\ pivot \in TransformPivots
    /\ original_mesh \in TransformMeshes
    /\ pc = "call"
    /\ points = <<>>
    /\ epsilon = R(0)
    /\ segments = 0
    /\ max_chunk_points = 0
    /\ start = 0
    /\ calls = <<>>
    /\ result = <<>>
    /\ start_cap = FALSE
    /\ end_cap = FALSE
    /\ view_w = R(0)
    /\ view_h = R(0)

\* utility.rs:187-223; the mesh returned is kept as the only element of
\* result, the mesh passed in is borrowed and stays as it is
TransformCall ==
    /\ pc = "call"
    /\ result' = <<transform_mesh_absolute(original_mesh, offset, zoom, pivot)>>
    /\ pc' = "done"
    /\ UNCHANGED <<points, epsilon, segments, max_chunk_points, start, calls>>
    /\ UNCHANGED arg_vars
    /\ UNCHANGED canvas_vars

NextTransform == TransformCall

SpecTransform == InitTransform /\ [][NextTransform]_vars

\* one coordinate mapped: pivot + ((c - offset) - pivot) * zoom
Mapped(c, off, piv, z) == RAdd(piv, RMul(RSub(RSub(c, off), piv), z))

\* C13: the mesh returned has the same number of vertices in the same order,
\* each with position pivot + ((pos - offset) - pivot) * zoom and depth 0
\* (uv, color and normal as they were), its index buffer is the input's, and
\* the input mesh is left unmodified.
C13_TransformAbsolute ==
    [][TransformCall =>
          /\ original_mesh' = original_mesh
          /\ Len(result'[1].vertices) = Len(original_mesh.vertices)
          /\ \A k \in 1..Len(original_mesh.vertices) :
                 LET v == original_mesh.vertices[k]
                     w == result'[1].vertices[k]
                 IN  /\ w.position[1] =
                            Mapped(v.position[1], offset[1], pivot[1], zoom)
                     /\ w.position[2] =
                            Mapped(v.position[2], offset[2], pivot[2], zoom)
                     /\ w.position[3] = R(0)
                     /\ w.uv = v.uv
                     /\ w.color = v.color
                     /\ w.normal = v.normal
          /\ result'[1].indices = original_mesh.indices
          /\ result'[1].texture = original_mesh.texture]_vars

\* a call with offset (3,-1), pivot (1,1) and zoom 2 on a mesh whose second
\* vertex (-1,3,5) went to (-9,7,0), the first and the indices kept in place
C13_Witness ==
    /\ pc = "done"
    /\ offset = <<R(3), R(-1)>>
    /\ pivot = <<R(1), R(1)>>
    /\ zoom = R(2)
    /\ Len(original_mesh.vertices) = 2
    /\ original_mesh.vertices[1].position = <<R(2), R(1), R(0)>>
    /\ original_mesh.vertices[2].position = <<R(-1), R(3), R(5)>>
    /\ original_mesh.indices = <<0, 1, 0>>
    /\ result[1].vertices[2].position = <<R(-9), R(7), R(0)>>
    /\ result[1].vertices[2].color = <<255, 0, 0, 255>>
    /\ result[1].indices = <<0, 1, 0>>

(***************************************************************************)
(* One call of is_stroke_visible on drawn arguments.                       *)
(***************************************************************************)
MaxVisLen == 2

VisPoints ==
    {Pt(0, 0, R(1)), Pt(4, 2, R(1)), Pt(8, 2, R(1)), Pt(10, 5, R(1)),
     Pt(1000, 3, R(1)), Pt(1100, 3, R(1))}

VisOffsets == {<<R(0), R(0)>>, <<R(4), R(0)>>, <<R(-2), R(6)>>}

VisZooms == {R(1), R(2), Rat(1, 2)}

\* screen sizes <<screen_w, screen_h>>
VisScreens == {<<R(8), R(6)>>, <<R(500), R(400)>>}

InitVisible ==
    /\ InputNew
    /\ strokes = <<>>
    /\ stroke_cache = <<>>
    /\ current_stroke = None
    /\ undo_stack = <<>>
    /\ redo_stack = <<>>
    /\ hist = NoHist
    /\ offset \in VisOffsets
    /\ zoom \in VisZooms
    /\ \E scr \in VisScreens : view_w = scr[1] /\ view_h = scr[2]
    /\ points \in SeqsUpTo(VisPoints, MaxVisLen)
    /\ pc = "call"
    /\ epsilon = R(0)
    /\ segments = 0
    /\ max_chunk_points = 0
    /\ start = 0
    /\ calls = <<>>
    /\ result = <<>>
    /\ start_cap = FALSE
    /\ end_cap = FALSE
    /\ original_mesh = <<>>
    /\ pivot = <<R(0), R(0)>>

\* utility.rs:148-157; the boolean returned is kept as the only element of
\* result
VisibleCall ==
    /\ pc = "call"
    /\ result' = <<is_stroke_visible(Stroke(points), offset, zoom, view_w,
                                     view_h)>>
    /\ pc' = "done"
    /\ UNCHANGED <<points, epsilon, segments, max_chunk_points, start, calls>>
    /\ UNCHANGED arg_vars
    /\ UNCHANGED canvas_vars

NextVisible == VisibleCall

SpecVisible == InitVisible /\ [][NextVisible]_vars

\* the least and the greatest of a non-empty set of numbers
MinOf(S) == CHOOSE m \in S : \A x \in S : RLe(m, x)

MaxOf(S) == CHOOSE m \in S : \A x \in S : RLe(x, m)

\* the closed intervals [a1, a2] and [b1, b2] have a number in common
Overlap(a1, a2, b1, b2) == RLe(RMax(a1, b1), RMin(a2, b2))

\* the bounding box of pts and the viewport rectangle
\* [off.x, off.x + w/z] x [off.y, off.y + h/z] have a point in common
BoxMeetsViewport(pts, off, z, w, h) ==
    LET xs == {pts[k].pos[1] : k \in 1..Len(pts)}
        ys == {pts[k].pos[2] : k \in 1..Len(pts)}
    IN  /\ Overlap(MinOf(xs), MaxOf(xs), off[1], RAdd(off[1], RDiv(w, z)))
        /\ Overlap(MinOf(ys), MaxOf(ys), off[2], RAdd(off[2], RDiv(h, z)))

\* C14: is_stroke_visible returns true exactly when the bounding box of the
\* stroke's points meets the viewport rectangle
\* [offset.x, offset.x + screen_w/zoom] x [offset.y, offset.y + screen_h/zoom],
\* boundaries included: a box that only touches an edge is visible, a box
\* entirely to one side is not.
C14_VisibleIffBoxMeetsViewport ==
    (pc = "done" /\ Len(points) >= 1)
        => (result[1] <=> BoxMeetsViewport(points, offset, zoom, view_w,
                                           view_h))

\* a stroke whose box [4,4] x [2,2] only touches the right edge of the
\* viewport [0,4] x [0,3], found visible
C14_Witness ==
    /\ pc = "done"
    /\ points = <<Pt(4, 2, R(1))>>
    /\ offset = <<R(0), R(0)>>
    /\ zoom = R(2)
    /\ view_w = R(8)
    /\ view_h = R(6)
    /\ result = <<TRUE>>

(***************************************************************************)
(* One call of any of the four point-sequence functions on a short input.  *)
(***************************************************************************)
MaxShortLen == 3

ShortPoints == {Pt(0, 0, R(1)), Pt(2, 1, R(2))}

InitShort ==
    /\ CanvasNew
    /\ pc = "call"
    /\ points \in SeqsUpTo(ShortPoints, MaxShortLen)
    /\ epsilon \in {R(0), R(1)}
    /\ segments \in {0, 2}
    /\ max_chunk_points \in {1, 2}
    /\ start_cap \in BOOLEAN
    /\ end_cap \in BOOLEAN
    /\ start = 0
    /\ calls = <<>>
    /\ result = <<>>
    /\ original_mesh = <<>>
    /\ pivot = <<R(0), R(0)>>
    /\ view_w = R(0)
    /\ view_h = R(0)

NextShort ==
    \/ RdpCall
    \/ CrCall
    \/ ChunkEnter
    \/ ChunkStep
    \/ ChunkReturn
    \/ MeshCall

SpecShort == InitShort /\ [][NextShort]_vars

\* C15: ramer_douglas_peucker on fewer than 3 points and catmull_rom_spline
\* on fewer than 4 points return the input unchanged;
\* stroke_to_world_submeshes on fewer than 2 points returns no mesh and makes
\* no call, build_stroke_mesh_chunk on fewer than 2 points returns a mesh
\* with no vertices and no indices.
C15_ShortInputs ==
    [][/\ (RdpCall /\ Len(points) < 3) => result' = points
       /\ (CrCall /\ Len(points) < 4) => result' = points
       /\ (ChunkEnter /\ Len(points) < 2) =>
              (pc' = "done" /\ result' = <<>> /\ calls' = <<>>)
       /\ (MeshCall /\ Len(points) < 2) =>
              (/\ result'[1].vertices = <<>>
               /\ result'[1].indices = <<>>)]_vars

\* build_stroke_mesh_chunk called on one point with both caps asked for,
\* and an empty mesh returned
C15_Witness ==
    /\ pc = "done"
    /\ Len(points) = 1
    /\ start_cap
    /\ end_cap
    /\ result = <<EmptyMesh>>

(***************************************************************************)
(* The canvas when every finalized stroke is new: one-point pen strokes    *)
(* at spots the eraser can tell apart, no file loaded.  A run in which all *)
(* finalized strokes are pairwise different never finalizes a stroke that  *)
(* the list or a command still holds, so every such run over these strokes *)
(* is a run of SpecDistinct.                                               *)
(***************************************************************************)
\* where the pen writes: the first two spots are 16 apart
DistinctPenPts == {<<R(14), R(0)>>, <<R(30), R(0)>>, <<R(66), R(0)>>}

\* where the eraser is put down: on the first spot, 10 from the first spot
\* and 6 from the second, and on the third spot
DistinctErasePts == {<<R(14), R(0)>>, <<R(24), R(0)>>, <<R(66), R(0)>>}

\* the stroke about to be finalized is held nowhere in the canvas
FreshStroke ==
    current_stroke # None =>
        LET stroke == finalized(current_stroke[1])
        IN  /\ \A k \in 1..Len(strokes) : strokes[k] # stroke
            /\ \A k \in 1..Len(undo_stack) : undo_stack[k].stroke # stroke
            /\ \A k \in 1..Len(redo_stack) : redo_stack[k].stroke # stroke

NextDistinct ==
    \/ /\ current_stroke = None
       /\ \E pos \in DistinctPenPts, pressure \in Pressures :
              AddPoint(pos, pressure)
    \/ FreshStroke /\ FinalizeStroke
    \/ \E pos \in DistinctErasePts : EraseStrokeAt(pos)
    \/ Undo
    \/ Redo
    \/ Clear

SpecDistinct == Init /\ [][NextDistinct]_vars

\* C21: when all finalized strokes are pairwise different, no sequence of
\* finalize_stroke, erase_stroke_at, undo, redo and clear puts the same
\* stroke into the stroke list twice.
C21_NoStrokeTwice ==
    \A i, j \in 1..Len(strokes) : i # j => strokes[i] # strokes[j]

\* an erased stroke is back in the list, next to another stroke, after the
\* undo of its RemoveStroke command
C21_Witness ==
    /\ Len(strokes) = 2
    /\ redo_stack # <<>>
    /\ redo_stack[Len(redo_stack)].kind = "RemoveStroke"
    /\ strokes[2] = redo_stack[Len(redo_stack)].stroke
    /\ strokes[1] # strokes[2]

(***************************************************************************)
(* Undo and redo as a pair, in every reachable state of the canvas.        *)
(***************************************************************************)
\* C22: with a non-empty undo stack, undo() followed at once by redo() leaves
\* the stroke list with the same strokes in the same order, and both stacks
\* as they were before the undo.
C22_UndoThenRedoRestores ==
    undo_stack # <<>> =>
        LET c == redo(undo(canvas))
        IN  /\ c.strokes = strokes
            /\ c.command_stack = command_stack

\* the commands the two stacks of cs hold together
NumCommands(cs) == Len(cs.undo_stack) + Len(cs.redo_stack)

\* C23: undo() and redo() lose no command: in every reachable state each of
\* them leaves the number of commands held by the two stacks together as it
\* was, and each is a no-op when its stack is empty.
C23_NoCommandLost ==
    /\ NumCommands(undo(canvas).command_stack) = NumCommands(command_stack)
    /\ NumCommands(redo(canvas).command_stack) = NumCommands(command_stack)
    /\ undo_stack = <<>> => undo(canvas) = canvas
    /\ redo_stack = <<>> => redo(canvas) = canvas

(***************************************************************************)
(* The eraser, in every state SpecDistinct reaches and at every spot.      *)
(***************************************************************************)
\* some point of the stroke lies within radius of pos
WithinRadius(stroke, pos, radius) ==
    \E k \in 1..Len(stroke.points) :
        RLe(LengthSq(VSub(stroke.points[k].pos, pos)), RMul(radius, radius))

MaxEvents == 2

\* StylusEvent: raw pressure 0 and 10000, BTN_STYLUS pressed and released
StylusEvents ==
    {[type |-> "Pressure", value |-> 0],
     [type |-> "Pressure", value |-> 10000],
     [type |-> "Key", value |-> 1],
     [type |-> "Key", value |-> 0]}

\* where the stylus is on the screen
TickScreenPts == {<<R(14), R(0)>>}

\* the key pressed in the tick: Ctrl+Z, Ctrl+R, C, or none of them
TickKeys == {"none", "Z", "R", "C"}

\* the fields the stylus events write
input ==
    [current_pressure |-> current_pressure,
     stylus_btn_1_pressed |-> stylus_btn_1_pressed,
     last_btn_1_press |-> last_btn_1_press,
     tool_mode |-> tool_mode,
     last_stylus_screen_pos |-> last_stylus_screen_pos]

\* toggle_eraser (main.rs:117-120)
toggle_eraser(mode) == IF mode = "Pen" THEN "Eraser" ELSE "Pen"

\* one event of the drain (main.rs:630-653); two presses handled less than
\* 300 ms apart toggle the tool
on_event(s, event, screen_pos) ==
    IF event.type = "Pressure"
    THEN [s EXCEPT !.current_pressure = RMul(Rat(event.value, 60000), R(3))]
    ELSE IF event.value = 1
         THEN IF ~s.stylus_btn_1_pressed
              THEN [s EXCEPT
                       !.tool_mode = IF s.last_btn_1_press = "recent"
                                     THEN toggle_eraser(@)
                                     ELSE @,
                       !.last_btn_1_press = "recent",
                       !.stylus_btn_1_pressed = TRUE,
                       !.last_stylus_screen_pos = Some(screen_pos)]
              ELSE s
         ELSE [s EXCEPT !.stylus_btn_1_pressed = FALSE,
                        !.last_stylus_screen_pos = None]

\* while let Ok(event) = receiver.try_recv() (main.rs:629-654)
RECURSIVE drain(_, _, _)
drain(s, events, screen_pos) ==
    IF events = <<>>
    THEN s
    ELSE drain(on_event(s, Head(events), screen_pos), Tail(events),
               screen_pos)

\* panning with the stylus button held (main.rs:656-665)
pan(s, off, z, screen_pos) ==
    IF s.stylus_btn_1_pressed
    THEN [input |-> [s EXCEPT !.last_stylus_screen_pos = Some(screen_pos)],
          offset |->
              IF s.last_stylus_screen_pos # None
              THEN VSub(off, VScale(VSub(screen_pos,
                                         s.last_stylus_screen_pos[1]),
                                    RDiv(R(1), z)))
              ELSE off]
    ELSE [input |-> s, offset |-> off]

\* the pressure and tool-mode dispatch (main.rs:675-695)
dispatch(c, cur, s, world_pos, z) ==
    IF RLt(Rat(1, 10), s.current_pressure)
    THEN IF s.tool_mode = "Pen"
         THEN [canvas |-> c,
               current_stroke |->
                   Some(add_point(IF cur = None THEN Stroke(<<>>)
                                  ELSE cur[1],
                                  world_pos, s.current_pressure, z))]
         ELSE [canvas |-> erase_stroke_at(c, world_pos, z),
               current_stroke |-> cur]
    ELSE IF RLt(s.current_pressure, Rat(1, 10)) /\ s.tool_mode = "Pen"
         THEN [canvas |-> finalize_stroke(c, cur), current_stroke |-> None]
         ELSE [canvas |-> c, current_stroke |-> cur]

\* Ctrl+Z and Ctrl+R (main.rs:703-708)
undo_redo_keys(c, key) ==
    IF key = "Z" THEN undo(c) ELSE IF key = "R" THEN redo(c) ELSE c

\* the stroke pass of draw (main.rs:278-302) on the canvas c
draw(c, off, z) ==
    [c EXCEPT !.stroke_cache =
        [i \in 1..Len(c.strokes) |->
            draw_slot(c.strokes[i], c.stroke_cache[i], off, z, R(ScreenW),
                      R(ScreenH))]]

\* the C key (main.rs:712-714) and clear (main.rs:112-115)
clear_key(c, key) ==
    IF key = "C" THEN [c EXCEPT !.strokes = <<>>, !.stroke_cache = <<>>]
    ELSE c

\* what the tick makes of the gestures behind the in-progress stroke: "one"
\* while all its points come from one pen-down, "lifted" once a tick has
\* finished with the pen up, "mixed" once a point was added after that
gesture_after(g, cur_before, cur_after, pressure_after) ==
    IF cur_after = None
    THEN "none"
    ELSE IF cur_after # cur_before
         THEN IF cur_before = None \/ g = "one" THEN "one" ELSE "mixed"
         ELSE IF RLt(pressure_after, Rat(1, 10)) /\ g = "one"
              THEN "lifted"
              ELSE g

\* one pass of the loop: `aged` says that 300 ms have passed since the last
\* press of the stylus button; p is the input state and the offset after
\* the drain and the pan, d the canvas after the dispatch, c the canvas at
\* the end of the pass.  A key is pressed only in a pass that finds no
\* stylus event to drain.
Tick(events, screen_pos, key, aged) ==
    /\ key # "none" => events = <<>>
    /\ \E p \in {pan(drain([input EXCEPT !.last_btn_1_press =
                                             IF aged THEN "old" ELSE @],
                           events, screen_pos),
                     offset, zoom, screen_pos)} :
       \E d \in {dispatch(canvas, current_stroke, p.input,
                          VAdd(p.offset, VScale(screen_pos, RDiv(R(1), zoom))),
                          zoom)} :
       \E c \in {clear_key(draw(undo_redo_keys(d.canvas, key), p.offset, zoom),
                           key)} :
           /\ d.current_stroke # None
                  => Len(d.current_stroke[1].points) <= MaxStrokePts
           /\ Len(c.strokes) <= MaxStrokes
           /\ NumCommands(c.command_stack) <= MaxCmds
           /\ current_pressure' = p.input.current_pressure
           /\ stylus_btn_1_pressed' = p.input.stylus_btn_1_pressed
           /\ last_btn_1_press' = p.input.last_btn_1_press
           /\ tool_mode' = p.input.tool_mode
           /\ last_stylus_screen_pos' = p.input.last_stylus_screen_pos
           /\ offset' = p.offset
           /\ current_stroke' = d.current_stroke
           /\ strokes' = c.strokes
           /\ stroke_cache' = c.stroke_cache
           /\ undo_stack' = c.command_stack.undo_stack
           /\ redo_stack' = c.command_stack.redo_stack
           /\ gesture' = gesture_after(gesture, current_stroke,
                                       d.current_stroke,
                                       p.input.current_pressure)
           /\ hist' = NoHist
           /\ UNCHANGED <<zoom, fn_vars>>

NextTick ==
    \E events \in SeqsUpTo(StylusEvents, MaxEvents),
       screen_pos \in TickScreenPts, key \in TickKeys,
       aged \in {FALSE, last_btn_1_press = "recent"} :
        Tick(events, screen_pos, key, aged)

SpecTick == Init /\ [][NextTick]_vars

\* C25: every pen-up closes the stroke: when a tick finishes with the
\* current pressure below 0.1 no in-progress stroke is left, whatever
\* pressure events and tool toggles were drained, and the points of two
\* separate pen-down gestures never end up in the same stroke.
C25_PenUpClosesStroke ==
    /\ RLt(current_pressure, Rat(1, 10)) => current_stroke = None
    /\ gesture # "mixed"
====
